---------------------------- MODULE Spec2Model ----------------------------
(***************************************************************************)
(* A model of python_trading_engine.py: the AtomicCounter, the Order heap, *)
(* the two OrderLists of each OrderBook, the matching loop and the         *)
(* TradingEngine that routes orders to its 1,024 books.                    *)
(*                                                                         *)
(* Heap objects are named by their order_id; None is 0.  The engine's list *)
(* of books is indexed as the Python list is (0 .. N-1, negative indexes   *)
(* counted from the end).                                                  *)
(***************************************************************************)
EXTENDS Integers, Sequences, FiniteSets, TLC

VARIABLES
    order_id_counter,   \* TradingEngine.order_id_counter.value
    orders,             \* the Order objects created so far, by order_id
    order_books,        \* TradingEngine.order_books: the head of each list
    trades,             \* the lines printed by match_orders, in order
    calls,              \* history: the add_order calls made so far
    pc,                 \* each caller's position in the code
    loc                 \* each caller's local variables

vars == <<order_id_counter, orders, order_books, trades, calls, pc, loc>>

-----------------------------------------------------------------------------
(* Program constants and the bounds of the model *)

\* range(1024) at TradingEngine.__init__
N == 1024

\* AtomicCounter(0)
InitialCounter == 0

\* the number of add_order calls explored
MaxOrders == 3

\* the number of concurrent callers
NumThreads == 2

None == 0

Sides == {"Buy", "Sell"}

\* the inputs a well-behaved caller draws from
ValidTickers == {1, N}
Quantities == {5, 7, 10}
Prices == {90, 100}

\* the inputs of a caller that does not validate them
AnyTickers == ValidTickers \cup {-1, 0, N + 1}
AnyQuantities == {-5, 0, 5, 10}
AnyPrices == {-90, 0, 90, 100}

Threads == 1 .. NumThreads

Main == 1

-----------------------------------------------------------------------------
(* Order and the lists *)

\* Order.__init__
Order(order_type, ticker, quantity, price, order_id) ==
    [order_type |-> order_type, ticker |-> ticker, quantity |-> quantity,
     price |-> price, order_id |-> order_id, next |-> None]

\* 'STOCK' + str(ticker_index)
Ticker(ticker_index) == <<"STOCK", ticker_index>>

\* OrderBook.__init__ / OrderList.__init__
OrderBook == [buy_orders |-> None, sell_orders |-> None]

\* the list an order of a side goes to (OrderBook.add_order's test)
ListName(order_type) == IF order_type = "Buy" THEN "buy_orders" ELSE "sell_orders"

\* ListIndex sending every instrument to the first book
ListIndex_Shared(i) == 0

\* order_books[i] as Python indexes a list of N elements; -1 is IndexError
ListIndex(i) ==
    IF 0 <= i /\ i < N THEN i
    ELSE IF -N <= i /\ i < 0 THEN i + N
    ELSE -1

\* the nodes reached from node h along next, at most k of them
RECURSIVE Chain(_, _, _)
Chain(ords, h, k) ==
    IF h = None \/ k = 0 THEN <<>>
    ELSE <<h>> \o Chain(ords, ords[h].next, k - 1)

\* The books the callers of this model can index.  Every access to order_books
\* goes through ListIndex(ticker_index - 1), so the other books of the 1,024
\* stay as __init__ left them and are not carried in the state.
Books == {ListIndex(i - 1) : i \in AnyTickers} \ {-1}

\* the list whose head is h, as the sequence of its nodes
Nodes(ords, h) == Chain(ords, h, Len(ords))


Min(a, b) == IF a <= b THEN a ELSE b

\* add_order's test for linking the new order in front of the head
GoesFirst(new_order, head_order) ==
    \/ new_order.order_type = "Buy" /\ new_order.price > head_order.price
    \/ new_order.order_type = "Sell" /\ new_order.price < head_order.price

\* WalksPast with the comparisons the wrong way round
WalksPast_Reversed(new_order, next_order) ==
    \/ new_order.order_type = "Buy" /\ next_order.price <= new_order.price
    \/ new_order.order_type = "Sell" /\ next_order.price >= new_order.price

\* WalksPast stopping in front of the orders of equal price
WalksPast_Strict(new_order, next_order) ==
    \/ new_order.order_type = "Buy" /\ next_order.price > new_order.price
    \/ new_order.order_type = "Sell" /\ next_order.price < new_order.price

\* add_order's test for walking past the node after current
WalksPast(new_order, next_order) ==
    \/ new_order.order_type = "Buy" /\ next_order.price >= new_order.price
    \/ new_order.order_type = "Sell" /\ next_order.price <= new_order.price

\* the inner while loop of add_order, run without interruption
RECURSIVE Walk(_, _, _)
Walk(ords, current, new) ==
    IF ords[current].next # None /\ WalksPast(ords[new], ords[ords[current].next])
    THEN Walk(ords, ords[current].next, new)
    ELSE current

\* _compare_and_swap_head, run without interruption, on a list whose head is h
compare_and_swap_head(h, expected, new) ==
    IF h = expected THEN [ok |-> TRUE, head |-> new]
    ELSE [ok |-> FALSE, head |-> h]

\* compare_and_swap_next cutting the list off behind the new node
compare_and_swap_next_Truncating(ords, node, new) ==
    [ok |-> TRUE, orders |-> [ords EXCEPT ![node].next = new, ![new].next = None]]

\* _compare_and_swap_next, run without interruption
compare_and_swap_next(ords, node, new) ==
    IF ords[node].next = ords[new].next
    THEN [ok |-> TRUE, orders |-> [ords EXCEPT ![node].next = new]]
    ELSE [ok |-> FALSE, orders |-> ords]

\* OrderList.add_order run by a single caller: the list's new head and the heap
RECURSIVE OrderList_add_order(_, _, _)
OrderList_add_order(ords, h, new) ==
    LET current_head == h IN
    IF current_head = None \/ GoesFirst(ords[new], ords[current_head])
    THEN LET linked == [ords EXCEPT ![new].next = current_head]
             cas == compare_and_swap_head(h, current_head, new)
         IN  IF cas.ok THEN [head |-> cas.head, orders |-> linked]
             ELSE OrderList_add_order(linked, cas.head, new)
    ELSE LET current == Walk(ords, current_head, new)
             linked == [ords EXCEPT ![new].next = ords[current].next]
             cas == compare_and_swap_next(linked, current, new)
         IN  IF cas.ok THEN [head |-> h, orders |-> cas.orders]
             ELSE OrderList_add_order(cas.orders, h, new)

\* pop_head returning the successor of the node it unlinks
pop_head_Second(ords, h) ==
    IF h = None THEN [head |-> None, result |-> None]
    ELSE [head |-> ords[h].next, result |-> ords[h].next]

\* OrderList.pop_head run by a single caller: the new head and the node returned
RECURSIVE pop_head(_, _)
pop_head(ords, h) ==
    LET current_head == h IN
    IF current_head = None THEN [head |-> h, result |-> None]
    ELSE LET new_head == ords[current_head].next
             cas == compare_and_swap_head(h, current_head, new_head)
         IN  IF cas.ok THEN [head |-> cas.head, result |-> current_head]
             ELSE pop_head(ords, cas.head)

-----------------------------------------------------------------------------
(* The matching loop *)

\* Crosses with > for >=
Crosses_Strict(ords, book) ==
    /\ book.buy_orders # None
    /\ book.sell_orders # None
    /\ ords[book.buy_orders].price > ords[book.sell_orders].price

\* Crosses without the comparison of the prices
Crosses_Any(ords, book) ==
    /\ book.buy_orders # None
    /\ book.sell_orders # None

\* the condition of match_orders' while loop
Crosses(ords, book) ==
    /\ book.buy_orders # None
    /\ book.sell_orders # None
    /\ ords[book.buy_orders].price >= ords[book.sell_orders].price

Max(a, b) == IF a >= b THEN a ELSE b

\* TradedQuantity taking the larger of the two quantities
TradedQuantity_Max(buy_order, sell_order) == Max(buy_order.quantity, sell_order.quantity)

\* TradedQuantity trading one unit at a time
TradedQuantity_One(buy_order, sell_order) == 1

\* traded_quantity = min(buy_order.quantity, sell_order.quantity)
TradedQuantity(buy_order, sell_order) == Min(buy_order.quantity, sell_order.quantity)

\* TradePrice taking the buy order's price
TradePrice_Buy(buy_order, sell_order) == buy_order.price

\* trade_price = sell_order.price
TradePrice(buy_order, sell_order) == sell_order.price

\* Fill without the decrement of the sell order
Fill_BuyOnly(ords, buy_order, sell_order, traded_quantity) ==
    [ords EXCEPT ![buy_order].quantity = @ - traded_quantity]

\* the two decrements of the loop body
Fill(ords, buy_order, sell_order, traded_quantity) ==
    LET bought == [ords EXCEPT ![buy_order].quantity = @ - traded_quantity]
    IN  [bought EXCEPT ![sell_order].quantity = @ - traded_quantity]

\* PopFilled popping both heads whatever their remaining quantity
PopFilled_Always(ords, book, buy_order, sell_order) ==
    [buy_orders |-> pop_head(ords, book.buy_orders).head,
     sell_orders |-> pop_head(ords, book.sell_orders).head]

\* the two conditional pops that end the loop body
PopFilled(ords, book, buy_order, sell_order) ==
    [buy_orders |-> IF ords[buy_order].quantity = 0
                    THEN pop_head(ords, book.buy_orders).head
                    ELSE book.buy_orders,
     sell_orders |-> IF ords[sell_order].quantity = 0
                     THEN pop_head(ords, book.sell_orders).head
                     ELSE book.sell_orders]

\* one pass through the body of match_orders' loop, run by a single caller
MatchBody(ords, book) ==
    LET buy_order == book.buy_orders
        sell_order == book.sell_orders
        traded_quantity == TradedQuantity(ords[buy_order], ords[sell_order])
        trade_price == TradePrice(ords[buy_order], ords[sell_order])
        filled == Fill(ords, buy_order, sell_order, traded_quantity)
    IN  [orders |-> filled,
         book |-> PopFilled(filled, book, buy_order, sell_order),
         trade |-> [ticker |-> ords[buy_order].ticker, price |-> trade_price,
                    quantity |-> traded_quantity,
                    buy_order |-> buy_order, sell_order |-> sell_order]]

-----------------------------------------------------------------------------
(* One caller at a time *)

\* The record of a call once TradingEngine.add_order has returned.  The method
\* has no return statement, so what the caller receives is None.
Returned(call) == [call EXCEPT !.outcome = "returned"] @@ [result |-> None]

\* a caller's local variables while no call of it is in progress
NoLocals ==
    [book |-> -1, order |-> None, list |-> "", caller |-> "",
     current_head |-> None, current |-> None, new_head |-> None,
     buy_price |-> 0, buy_order |-> None, sell_order |-> None,
     buy_quantity |-> 0, traded_quantity |-> 0, value |-> 0]

Init ==
    /\ order_id_counter = InitialCounter
    /\ orders = <<>>
    /\ order_books = [b \in Books |-> OrderBook]
    /\ trades = <<>>
    /\ calls = <<>>
    /\ pc = [t \in Threads |-> "idle"]
    /\ loc = [t \in Threads |-> NoLocals]

\* AtomicCounter.increment: the value after the increment
increment(value) == value + 1

\* TradingEngine.add_order up to the return of OrderList.add_order
TradingEngine_add_order(t, order_type, ticker_index, quantity, price) ==
    LET order_id == increment(order_id_counter)
        order == Order(order_type, Ticker(ticker_index), quantity, price, order_id)
        b == ListIndex(ticker_index - 1)
        heap == Append(orders, order)
        call == [order_type |-> order_type, ticker_index |-> ticker_index,
                 quantity |-> quantity, price |-> price, order_id |-> order_id]
    IN  /\ pc[t] = "idle"
        /\ order_id_counter' = order_id
        /\ IF b = -1
           THEN /\ orders' = heap
                /\ calls' = Append(calls, call @@ [outcome |-> "IndexError"])
                /\ UNCHANGED <<order_books, pc, loc>>
           ELSE LET list == ListName(order_type)
                    added == OrderList_add_order(heap, order_books[b][list], order_id)
                IN  /\ orders' = added.orders
                    /\ order_books' = [order_books EXCEPT ![b][list] = added.head]
                    /\ calls' = Append(calls, call @@ [outcome |-> "running"])
                    /\ pc' = [pc EXCEPT ![t] = "match_orders"]
                    /\ loc' = [loc EXCEPT ![t] = [NoLocals EXCEPT !.book = b, !.order = order_id]]
        /\ UNCHANGED trades

\* match_orders: the loop condition holds and the body runs once
match_orders_body(t) ==
    /\ pc[t] = "match_orders"
    /\ Crosses(orders, order_books[loc[t].book])
    /\ LET m == MatchBody(orders, order_books[loc[t].book])
       IN  /\ orders' = m.orders
           /\ order_books' = [order_books EXCEPT ![loc[t].book] = m.book]
           /\ trades' = Append(trades, m.trade @@ [by |-> loc[t].order])
    /\ UNCHANGED <<order_id_counter, calls, pc, loc>>

\* match_orders_return without the test of the loop condition
match_orders_return_Early(t) ==
    /\ pc[t] = "match_orders"
    /\ calls' = [calls EXCEPT ![loc[t].order] = Returned(@)]
    /\ pc' = [pc EXCEPT ![t] = "idle"]
    /\ loc' = [loc EXCEPT ![t] = NoLocals]
    /\ UNCHANGED <<order_id_counter, orders, order_books, trades>>

\* match_orders: the loop condition fails, and add_order returns (None)
match_orders_return(t) ==
    /\ pc[t] = "match_orders"
    /\ ~Crosses(orders, order_books[loc[t].book])
    /\ calls' = [calls EXCEPT ![loc[t].order] = Returned(@)]
    /\ pc' = [pc EXCEPT ![t] = "idle"]
    /\ loc' = [loc EXCEPT ![t] = NoLocals]
    /\ UNCHANGED <<order_id_counter, orders, order_books, trades>>

\* a caller that passes only inputs the interface allows
SubmitValid ==
    /\ Len(calls) < MaxOrders
    /\ \E order_type \in Sides, ticker_index \in ValidTickers,
          quantity \in Quantities, price \in Prices :
          TradingEngine_add_order(Main, order_type, ticker_index, quantity, price)

Next ==
    \/ SubmitValid
    \/ match_orders_body(Main)
    \/ match_orders_return(Main)

Spec == Init /\ [][Next]_vars

\* a caller that passes any ticker_index, with a valid quantity and price
SubmitAnyTicker ==
    /\ Len(calls) < MaxOrders
    /\ \E order_type \in Sides, ticker_index \in AnyTickers,
          quantity \in Quantities, price \in Prices :
          TradingEngine_add_order(Main, order_type, ticker_index, quantity, price)

NextAnyTicker ==
    \/ SubmitAnyTicker
    \/ match_orders_body(Main)
    \/ match_orders_return(Main)

SpecAnyTicker == Init /\ [][NextAnyTicker]_vars

\* a caller that passes any quantity and price, with a valid ticker_index
SubmitAnyValue ==
    /\ Len(calls) < MaxOrders
    /\ \E order_type \in Sides, ticker_index \in ValidTickers,
          quantity \in AnyQuantities, price \in AnyPrices :
          TradingEngine_add_order(Main, order_type, ticker_index, quantity, price)

NextAnyValue ==
    \/ SubmitAnyValue
    \/ match_orders_body(Main)
    \/ match_orders_return(Main)

SpecAnyValue == Init /\ [][NextAnyValue]_vars

-----------------------------------------------------------------------------
(* Several callers at once: every read and every write of a head, a next or *)
(* a quantity is a step of its own.                                        *)

\* the inputs of the concurrent callers, all for one instrument
ConcTickers == {1}
ConcQuantities == {5}
ConcPrices == {90, 100}

\* self.head of the list caller t is working on
SelfHead(t) == order_books[loc[t].book][loc[t].list]

Goto(t, label) == pc' = [pc EXCEPT ![t] = label]

\* the call of t ends: add_order returns None
Return(t) ==
    /\ calls' = [calls EXCEPT ![loc[t].order] = Returned(@)]
    /\ pc' = [pc EXCEPT ![t] = "idle"]
    /\ loc' = [loc EXCEPT ![t] = NoLocals]

\* the call of t ends in AttributeError: an attribute of None was read
Raise(t) ==
    /\ calls' = [calls EXCEPT ![loc[t].order].outcome = "AttributeError"]
    /\ pc' = [pc EXCEPT ![t] = "idle"]
    /\ loc' = [loc EXCEPT ![t] = NoLocals]

\* TradingEngine.add_order and OrderBook.add_order up to the call of
\* OrderList.add_order
add_order_call(t, order_type, ticker_index, quantity, price) ==
    LET order_id == increment(order_id_counter)
        order == Order(order_type, Ticker(ticker_index), quantity, price, order_id)
        b == ListIndex(ticker_index - 1)
        call == [order_type |-> order_type, ticker_index |-> ticker_index,
                 quantity |-> quantity, price |-> price, order_id |-> order_id]
    IN  /\ pc[t] = "idle"
        /\ order_id_counter' = order_id
        /\ orders' = Append(orders, order)
        /\ IF b = -1
           THEN /\ calls' = Append(calls, call @@ [outcome |-> "IndexError"])
                /\ UNCHANGED <<pc, loc>>
           ELSE /\ calls' = Append(calls, call @@ [outcome |-> "running"])
                /\ Goto(t, "add_read_head")
                /\ loc' = [loc EXCEPT ![t] = [NoLocals EXCEPT !.book = b,
                              !.order = order_id, !.list = ListName(order_type),
                              !.caller = "add_order"]]
        /\ UNCHANGED <<order_books, trades>>

\* OrderList.add_order: current_head = self.head, the test on it, and
\* new_order.next = current_head
add_read_head(t) ==
    /\ pc[t] = "add_read_head"
    /\ LET current_head == SelfHead(t)
           new == loc[t].order
       IN  IF current_head = None \/ GoesFirst(orders[new], orders[current_head])
           THEN /\ orders' = [orders EXCEPT ![new].next = current_head]
                /\ loc' = [loc EXCEPT ![t].current_head = current_head]
                /\ Goto(t, "cas_head_compare")
           ELSE /\ loc' = [loc EXCEPT ![t].current = current_head]
                /\ Goto(t, "walk_test_next")
                /\ UNCHANGED orders
    /\ UNCHANGED <<order_id_counter, order_books, trades, calls>>

\* the argument new of _compare_and_swap_head
New(t) == IF loc[t].caller = "add_order" THEN loc[t].order ELSE loc[t].new_head

\* where a caller of pop_head goes on
AfterPop(t) ==
    IF loc[t].caller = "pop_buy" THEN "match_check_sell" ELSE "match_test_buy_head"

\* _compare_and_swap_head: if self.head == expected
cas_head_compare(t) ==
    /\ pc[t] = "cas_head_compare"
    /\ IF SelfHead(t) = loc[t].current_head
       THEN Goto(t, "cas_head_assign")
       ELSE IF loc[t].caller = "add_order"
            THEN Goto(t, "add_read_head")
            ELSE Goto(t, "pop_read_head")
    /\ UNCHANGED <<order_id_counter, orders, order_books, trades, calls, loc>>

\* _compare_and_swap_head: self.head = new; return True
cas_head_assign(t) ==
    /\ pc[t] = "cas_head_assign"
    /\ order_books' = [order_books EXCEPT ![loc[t].book][loc[t].list] = New(t)]
    /\ IF loc[t].caller = "add_order"
       THEN Goto(t, "match_test_buy_head")
       ELSE Goto(t, AfterPop(t))
    /\ loc' = [loc EXCEPT ![t].current_head = None, ![t].new_head = None]
    /\ UNCHANGED <<order_id_counter, orders, trades, calls>>

\* OrderList.add_order: while current.next
walk_test_next(t) ==
    /\ pc[t] = "walk_test_next"
    /\ IF orders[loc[t].current].next # None
       THEN Goto(t, "walk_test_price")
       ELSE Goto(t, "link_next")
    /\ UNCHANGED <<order_id_counter, orders, order_books, trades, calls, loc>>

\* OrderList.add_order: ... and current.next.price against new_order.price
walk_test_price(t) ==
    /\ pc[t] = "walk_test_price"
    /\ LET next == orders[loc[t].current].next IN
       IF next = None
       THEN Raise(t)
       ELSE /\ IF WalksPast(orders[loc[t].order], orders[next])
               THEN Goto(t, "walk_advance")
               ELSE Goto(t, "link_next")
            /\ UNCHANGED <<calls, loc>>
    /\ UNCHANGED <<order_id_counter, orders, order_books, trades>>

\* OrderList.add_order: current = current.next
walk_advance(t) ==
    /\ pc[t] = "walk_advance"
    /\ IF orders[loc[t].current].next = None
       THEN Raise(t)
       ELSE /\ loc' = [loc EXCEPT ![t].current = orders[loc[t].current].next]
            /\ Goto(t, "walk_test_next")
            /\ UNCHANGED calls
    /\ UNCHANGED <<order_id_counter, orders, order_books, trades>>

\* OrderList.add_order: new_order.next = current.next
link_next(t) ==
    /\ pc[t] = "link_next"
    /\ orders' = [orders EXCEPT ![loc[t].order].next = orders[loc[t].current].next]
    /\ Goto(t, "cas_next_compare")
    /\ UNCHANGED <<order_id_counter, order_books, trades, calls, loc>>

\* _compare_and_swap_next: if node.next == new.next
cas_next_compare(t) ==
    /\ pc[t] = "cas_next_compare"
    /\ IF orders[loc[t].current].next = orders[loc[t].order].next
       THEN Goto(t, "cas_next_assign")
       ELSE Goto(t, "add_read_head")
    /\ UNCHANGED <<order_id_counter, orders, order_books, trades, calls, loc>>

\* _compare_and_swap_next: node.next = new; return True
cas_next_assign(t) ==
    /\ pc[t] = "cas_next_assign"
    /\ orders' = [orders EXCEPT ![loc[t].current].next = loc[t].order]
    /\ Goto(t, "match_test_buy_head")
    /\ loc' = [loc EXCEPT ![t].current = None]
    /\ UNCHANGED <<order_id_counter, order_books, trades, calls>>

\* match_orders: while self.buy_orders.head ...
match_test_buy_head(t) ==
    /\ pc[t] = "match_test_buy_head"
    /\ IF order_books[loc[t].book].buy_orders # None
       THEN Goto(t, "match_test_sell_head") /\ UNCHANGED <<calls, loc>>
       ELSE Return(t)
    /\ UNCHANGED <<order_id_counter, orders, order_books, trades>>

\* match_orders: ... and self.sell_orders.head ...
match_test_sell_head(t) ==
    /\ pc[t] = "match_test_sell_head"
    /\ IF order_books[loc[t].book].sell_orders # None
       THEN Goto(t, "match_read_buy_price") /\ UNCHANGED <<calls, loc>>
       ELSE Return(t)
    /\ UNCHANGED <<order_id_counter, orders, order_books, trades>>

\* match_orders: ... and self.buy_orders.head.price ...
match_read_buy_price(t) ==
    /\ pc[t] = "match_read_buy_price"
    /\ LET head == order_books[loc[t].book].buy_orders IN
       IF head = None
       THEN Raise(t)
       ELSE /\ loc' = [loc EXCEPT ![t].buy_price = orders[head].price]
            /\ Goto(t, "match_read_sell_price")
            /\ UNCHANGED calls
    /\ UNCHANGED <<order_id_counter, orders, order_books, trades>>

\* match_orders: ... >= self.sell_orders.head.price
match_read_sell_price(t) ==
    /\ pc[t] = "match_read_sell_price"
    /\ LET head == order_books[loc[t].book].sell_orders IN
       IF head = None
       THEN Raise(t)
       ELSE IF loc[t].buy_price >= orders[head].price
            THEN /\ loc' = [loc EXCEPT ![t].buy_price = 0]
                 /\ Goto(t, "match_take_buy")
                 /\ UNCHANGED calls
            ELSE Return(t)
    /\ UNCHANGED <<order_id_counter, orders, order_books, trades>>

\* match_orders: buy_order = self.buy_orders.head
match_take_buy(t) ==
    /\ pc[t] = "match_take_buy"
    /\ loc' = [loc EXCEPT ![t].buy_order = order_books[loc[t].book].buy_orders]
    /\ Goto(t, "match_take_sell")
    /\ UNCHANGED <<order_id_counter, orders, order_books, trades, calls>>

\* match_orders: sell_order = self.sell_orders.head
match_take_sell(t) ==
    /\ pc[t] = "match_take_sell"
    /\ loc' = [loc EXCEPT ![t].sell_order = order_books[loc[t].book].sell_orders]
    /\ Goto(t, "match_read_buy_quantity")
    /\ UNCHANGED <<order_id_counter, orders, order_books, trades, calls>>

\* match_orders: min(buy_order.quantity, ...
match_read_buy_quantity(t) ==
    /\ pc[t] = "match_read_buy_quantity"
    /\ IF loc[t].buy_order = None
       THEN Raise(t)
       ELSE /\ loc' = [loc EXCEPT ![t].buy_quantity = orders[loc[t].buy_order].quantity]
            /\ Goto(t, "match_read_sell_quantity")
            /\ UNCHANGED calls
    /\ UNCHANGED <<order_id_counter, orders, order_books, trades>>

\* the number of trades explored when callers overlap: racing callers can go
\* round the matching loop without end
MaxTrades == 3

\* match_orders: ... sell_order.quantity), trade_price and the print
match_read_sell_quantity(t) ==
    /\ pc[t] = "match_read_sell_quantity"
    /\ loc[t].sell_order # None => Len(trades) < MaxTrades
    /\ IF loc[t].sell_order = None
       THEN Raise(t) /\ UNCHANGED trades
       ELSE LET buy_order == orders[loc[t].buy_order]
                sell_order == orders[loc[t].sell_order]
                traded_quantity ==
                    TradedQuantity([buy_order EXCEPT !.quantity = loc[t].buy_quantity],
                                   sell_order)
                trade_price == TradePrice(buy_order, sell_order)
            IN  /\ loc' = [loc EXCEPT ![t].traded_quantity = traded_quantity,
                                      ![t].buy_quantity = 0]
                /\ trades' = Append(trades,
                      [ticker |-> buy_order.ticker, price |-> trade_price,
                       quantity |-> traded_quantity,
                       buy_order |-> loc[t].buy_order,
                       sell_order |-> loc[t].sell_order, by |-> loc[t].order])
                /\ Goto(t, "match_dec_buy_read")
                /\ UNCHANGED calls
    /\ UNCHANGED <<order_id_counter, orders, order_books>>

\* match_orders: buy_order.quantity -= traded_quantity, the read
match_dec_buy_read(t) ==
    /\ pc[t] = "match_dec_buy_read"
    /\ loc' = [loc EXCEPT ![t].value = orders[loc[t].buy_order].quantity]
    /\ Goto(t, "match_dec_buy_write")
    /\ UNCHANGED <<order_id_counter, orders, order_books, trades, calls>>

\* match_orders: buy_order.quantity -= traded_quantity, the write
match_dec_buy_write(t) ==
    /\ pc[t] = "match_dec_buy_write"
    /\ orders' = [orders EXCEPT ![loc[t].buy_order].quantity =
                      loc[t].value - loc[t].traded_quantity]
    /\ loc' = [loc EXCEPT ![t].value = 0]
    /\ Goto(t, "match_dec_sell_read")
    /\ UNCHANGED <<order_id_counter, order_books, trades, calls>>

\* match_orders: sell_order.quantity -= traded_quantity, the read
match_dec_sell_read(t) ==
    /\ pc[t] = "match_dec_sell_read"
    /\ loc' = [loc EXCEPT ![t].value = orders[loc[t].sell_order].quantity]
    /\ Goto(t, "match_dec_sell_write")
    /\ UNCHANGED <<order_id_counter, orders, order_books, trades, calls>>

\* match_orders: sell_order.quantity -= traded_quantity, the write
match_dec_sell_write(t) ==
    /\ pc[t] = "match_dec_sell_write"
    /\ orders' = [orders EXCEPT ![loc[t].sell_order].quantity =
                      loc[t].value - loc[t].traded_quantity]
    /\ loc' = [loc EXCEPT ![t].value = 0, ![t].traded_quantity = 0]
    /\ Goto(t, "match_check_buy")
    /\ UNCHANGED <<order_id_counter, order_books, trades, calls>>

\* match_orders: if buy_order.quantity == 0: self.buy_orders.pop_head()
match_check_buy(t) ==
    /\ pc[t] = "match_check_buy"
    /\ IF orders[loc[t].buy_order].quantity = 0
       THEN /\ loc' = [loc EXCEPT ![t].buy_order = None,
                                  ![t].list = "buy_orders", ![t].caller = "pop_buy"]
            /\ Goto(t, "pop_read_head")
       ELSE /\ loc' = [loc EXCEPT ![t].buy_order = None]
            /\ Goto(t, "match_check_sell")
    /\ UNCHANGED <<order_id_counter, orders, order_books, trades, calls>>

\* match_orders: if sell_order.quantity == 0: self.sell_orders.pop_head()
match_check_sell(t) ==
    /\ pc[t] = "match_check_sell"
    /\ IF orders[loc[t].sell_order].quantity = 0
       THEN /\ loc' = [loc EXCEPT ![t].sell_order = None,
                                  ![t].list = "sell_orders", ![t].caller = "pop_sell"]
            /\ Goto(t, "pop_read_head")
       ELSE /\ loc' = [loc EXCEPT ![t].sell_order = None]
            /\ Goto(t, "match_test_buy_head")
    /\ UNCHANGED <<order_id_counter, orders, order_books, trades, calls>>

\* pop_head: current_head = self.head; if not current_head: return None
pop_read_head(t) ==
    /\ pc[t] = "pop_read_head"
    /\ IF SelfHead(t) = None
       THEN Goto(t, AfterPop(t)) /\ UNCHANGED loc
       ELSE /\ loc' = [loc EXCEPT ![t].current_head = SelfHead(t)]
            /\ Goto(t, "pop_read_next")
    /\ UNCHANGED <<order_id_counter, orders, order_books, trades, calls>>

\* pop_head: new_head = current_head.next
pop_read_next(t) ==
    /\ pc[t] = "pop_read_next"
    /\ loc' = [loc EXCEPT ![t].new_head = orders[loc[t].current_head].next]
    /\ Goto(t, "cas_head_compare")
    /\ UNCHANGED <<order_id_counter, orders, order_books, trades, calls>>

\* the number of add_order calls the concurrent callers make between them
MaxConcCalls == 3

\* the number of those calls that run alone, before the callers overlap
SetupCalls == 1

\* A caller starts a call.  The first SetupCalls calls start while no other
\* call is in progress: these schedules are among those of the program.
SubmitConc ==
    /\ Len(calls) < MaxConcCalls
    /\ Len(calls) <= SetupCalls => \A t \in Threads : pc[t] = "idle"
    /\ \E t \in Threads, order_type \in Sides, ticker_index \in ConcTickers,
          quantity \in ConcQuantities, price \in ConcPrices :
          add_order_call(t, order_type, ticker_index, quantity, price)

NextConc ==
    \/ SubmitConc
    \/ \E t \in Threads :
          \/ add_read_head(t)
          \/ cas_head_compare(t)
          \/ cas_head_assign(t)
          \/ walk_test_next(t)
          \/ walk_test_price(t)
          \/ walk_advance(t)
          \/ link_next(t)
          \/ cas_next_compare(t)
          \/ cas_next_assign(t)
          \/ match_test_buy_head(t)
          \/ match_test_sell_head(t)
          \/ match_read_buy_price(t)
          \/ match_read_sell_price(t)
          \/ match_take_buy(t)
          \/ match_take_sell(t)
          \/ match_read_buy_quantity(t)
          \/ match_read_sell_quantity(t)
          \/ match_dec_buy_read(t)
          \/ match_dec_buy_write(t)
          \/ match_dec_sell_read(t)
          \/ match_dec_sell_write(t)
          \/ match_check_buy(t)
          \/ match_check_sell(t)
          \/ pop_read_head(t)
          \/ pop_read_next(t)

SpecConc == Init /\ [][NextConc]_vars

-----------------------------------------------------------------------------
(* What the properties speak of *)

BuyList(b) == Nodes(orders, order_books[b].buy_orders)

SellList(b) == Nodes(orders, order_books[b].sell_orders)

Linked(b) == BuyList(b) \o SellList(b)

Range(seq) == {seq[k] : k \in 1 .. Len(seq)}

RECURSIVE SumTo(_, _)
SumTo(f, k) == IF k = 0 THEN 0 ELSE f[k] + SumTo(f, k - 1)

\* the remaining quantity of the orders linked in book b
RestingQuantity(b) ==
    LET l == Linked(b) IN SumTo([k \in 1 .. Len(l) |-> orders[l[k]].quantity], Len(l))

\* the quantity printed in the trades of instrument i
TradedQuantityOf(i) ==
    SumTo([k \in 1 .. Len(trades) |->
              IF trades[k].ticker = Ticker(i) THEN trades[k].quantity ELSE 0],
          Len(trades))

\* the quantity submitted to instrument i
SubmittedQuantity(i) ==
    SumTo([k \in 1 .. Len(calls) |->
              IF calls[k].ticker_index = i THEN calls[k].quantity ELSE 0],
          Len(calls))

\* the quantity of the trades printed against order o
FilledQuantity(o) ==
    SumTo([k \in 1 .. Len(trades) |->
              IF o \in {trades[k].buy_order, trades[k].sell_order}
              THEN trades[k].quantity ELSE 0],
          Len(trades))

\* no call is in progress
Quiescent == \A t \in Threads : pc[t] = "idle"

\* the calls made so far are exactly these <<side, quantity, price>>, on instrument i
History(i, inputs) ==
    /\ Len(calls) = Len(inputs)
    /\ \A k \in 1 .. Len(inputs) :
          /\ calls[k].ticker_index = i
          /\ calls[k].order_type = inputs[k][1]
          /\ calls[k].quantity = inputs[k][2]
          /\ calls[k].price = inputs[k][3]

-----------------------------------------------------------------------------
(* C1 *)

NonIncreasing(l) ==
    \A k \in 1 .. Len(l) - 1 : orders[l[k]].price >= orders[l[k + 1]].price

NonDecreasing(l) ==
    \A k \in 1 .. Len(l) - 1 : orders[l[k]].price <= orders[l[k + 1]].price

\* C1: in every reachable state of one-at-a-time valid add_order calls, each
\* buy list read from head along next has non-increasing prices and each sell
\* list non-decreasing prices, and the head of a list carries the best price
\* of the list (highest for buys, lowest for sells).
C1_SortInvariant ==
    \A b \in Books :
        /\ NonIncreasing(BuyList(b))
        /\ NonDecreasing(SellList(b))
        /\ \A o \in Range(BuyList(b)) :
              orders[order_books[b].buy_orders].price >= orders[o].price
        /\ \A o \in Range(SellList(b)) :
              orders[order_books[b].sell_orders].price <= orders[o].price

\* a list of three orders at two prices, the last one inserted in the middle:
\* behind the order of its own price and before the order of the worse price
C1_Witness ==
    \E b \in Books :
        LET l == BuyList(b) IN
        /\ Len(l) = 3
        /\ orders[l[1]].price = orders[l[2]].price
        /\ orders[l[2]].price > orders[l[3]].price
        /\ l[2] > l[1] /\ l[2] > l[3]

-----------------------------------------------------------------------------
(* C2 *)

\* C2: whenever add_order has returned, no book has both lists non-empty
\* with the buy head's price >= the sell head's price.
C2_NoSelfCross ==
    Quiescent =>
        \A b \in Books :
            ~ /\ order_books[b].buy_orders # None
              /\ order_books[b].sell_orders # None
              /\ orders[order_books[b].buy_orders].price
                    >= orders[order_books[b].sell_orders].price

\* matching has traded in a book and left orders resting on both sides of it
C2_Witness ==
    /\ Quiescent
    /\ \E b \in Books :
          /\ order_books[b].buy_orders # None
          /\ order_books[b].sell_orders # None
          /\ \E k \in 1 .. Len(trades) :
                trades[k].ticker = orders[order_books[b].buy_orders].ticker

-----------------------------------------------------------------------------
(* C3 *)

\* C3: for each instrument, the remaining quantity of the orders linked in
\* its two lists, plus the traded quantity counted once for the buy order and
\* once for the sell order of every trade, equals the quantity submitted.
C3_Conservation ==
    \A i \in ValidTickers :
        RestingQuantity(ListIndex(i - 1)) + 2 * TradedQuantityOf(i)
            = SubmittedQuantity(i)

\* an instrument with a partly filled order resting after a trade
C3_Witness ==
    \E i \in ValidTickers :
        /\ TradedQuantityOf(i) > 0
        /\ \E o \in Range(Linked(ListIndex(i - 1))) :
              /\ orders[o].quantity > 0
              /\ orders[o].quantity < calls[o].quantity

-----------------------------------------------------------------------------
(* C4 *)

\* the order of a trade's pair that was in the book before the call that
\* printed the trade
RestingOrder(trade) ==
    IF trade.by = trade.buy_order THEN trade.sell_order ELSE trade.buy_order

\* C4 as claimed: every trade's price is the price of the resting order of
\* its pair, whichever side the newly added order is on.
C4_TradeAtRestingPrice ==
    \A k \in 1 .. Len(trades) :
        trades[k].price = orders[RestingOrder(trades[k])].price

\* C4 as amended: every trade pairs the newly added order with a resting
\* order and is priced at the sell order's price; that is the resting order's
\* price when the new order is the Buy, and the new order's own price when
\* the new order is the Sell.
C4_TradeAtSellPrice ==
    \A k \in 1 .. Len(trades) :
        LET trade == trades[k] IN
        /\ trade.by \in {trade.buy_order, trade.sell_order}
        /\ trade.buy_order # trade.sell_order
        /\ trade.price = orders[trade.sell_order].price
        /\ trade.by = trade.buy_order =>
              trade.price = orders[RestingOrder(trade)].price
        /\ trade.by = trade.sell_order => trade.price = orders[trade.by].price

\* a new Sell has traded with a resting Buy of a higher price, and a new Buy
\* with a resting Sell of a lower price
C4_Witness ==
    /\ \E k \in 1 .. Len(trades) :
          /\ trades[k].by = trades[k].sell_order
          /\ orders[trades[k].buy_order].price > orders[trades[k].sell_order].price
    /\ \E k \in 1 .. Len(trades) :
          /\ trades[k].by = trades[k].buy_order
          /\ orders[trades[k].buy_order].price > orders[trades[k].sell_order].price

-----------------------------------------------------------------------------
(* C5 *)

\* a step of the matching loop that starts from a cross prints one trade of
\* the two heads, for the smaller of their quantities, at the sell head's
\* price, and takes that quantity off both
C5_Iteration ==
    LET book == order_books[loc[Main].book]
        buy == book.buy_orders
        sell == book.sell_orders
        trade == trades'[Len(trades')]
    IN  /\ pc[Main] = "match_orders"
        /\ buy # None /\ sell # None
        /\ orders[buy].price >= orders[sell].price
        => /\ Len(trades') = Len(trades) + 1
           /\ SubSeq(trades', 1, Len(trades)) = trades
           /\ trade.buy_order = buy /\ trade.sell_order = sell
           /\ trade.quantity = IF orders[buy].quantity <= orders[sell].quantity
                               THEN orders[buy].quantity ELSE orders[sell].quantity
           /\ trade.price = orders[sell].price
           /\ orders'[buy].quantity = orders[buy].quantity - trade.quantity
           /\ orders'[sell].quantity = orders[sell].quantity - trade.quantity

\* Buy(10, 100) then Sell(10, 90) on one instrument: one trade of 10 at 90,
\* and both lists empty
C5_Scenario ==
    \A i \in ValidTickers :
        Quiescent /\ History(i, << <<"Buy", 10, 100>>, <<"Sell", 10, 90>> >>) =>
            /\ Len(trades) = 1
            /\ trades[1].ticker = Ticker(i)
            /\ trades[1].price = 90
            /\ trades[1].quantity = 10
            /\ order_books[ListIndex(i - 1)] = OrderBook

\* C5: every iteration of match_orders that finds a cross pairs the two
\* heads, prints exactly one trade of min(buy.quantity, sell.quantity) at the
\* sell order's price and reduces both orders by that quantity; and
\* Buy(10, 100), Sell(10, 90) gives one trade of 10 at 90 and two empty lists.
C5_Match == [][C5_Iteration]_vars /\ []C5_Scenario

\* the scenario has run to its end
C5_Witness ==
    /\ Quiescent
    /\ History(1, << <<"Buy", 10, 100>>, <<"Sell", 10, 90>> >>)
    /\ Len(trades) = 1

-----------------------------------------------------------------------------
(* C6 *)

\* two orders queue at the same price of the same list
SameLevel(a, b) ==
    /\ orders[a].ticker = orders[b].ticker
    /\ orders[a].order_type = orders[b].order_type
    /\ orders[a].price = orders[b].price

\* Buy(5, 100), Buy(5, 100), Sell(7, 100): the first buy is filled with 5,
\* then the second with 2, and the second rests with 3
C6_Scenario ==
    \A i \in ValidTickers :
        Quiescent /\ History(i, << <<"Buy", 5, 100>>, <<"Buy", 5, 100>>,
                                   <<"Sell", 7, 100>> >>) =>
            /\ Len(trades) = 2
            /\ trades[1].price = 100 /\ trades[1].quantity = 5
            /\ trades[1].buy_order = 1 /\ trades[1].sell_order = 3
            /\ trades[2].price = 100 /\ trades[2].quantity = 2
            /\ trades[2].buy_order = 2 /\ trades[2].sell_order = 3
            /\ BuyList(ListIndex(i - 1)) = <<2>>
            /\ orders[2].quantity = 3
            /\ SellList(ListIndex(i - 1)) = <<>>

\* C6: in every list, orders of equal price are linked in the order they were
\* inserted; an order receives a fill only once every earlier order of its
\* price and list is fully filled and unlinked; and Buy(5, 100), Buy(5, 100),
\* Sell(7, 100) trades 5 with the first buy, then 2 with the second, which
\* rests with 3.
C6_FIFO ==
    /\ \A b \in Books : \A l \in {BuyList(b), SellList(b)} :
          \A j, k \in 1 .. Len(l) :
              j < k /\ orders[l[j]].price = orders[l[k]].price => l[j] < l[k]
    /\ \A a, o \in 1 .. Len(orders) :
          a < o /\ SameLevel(a, o) /\ FilledQuantity(o) > 0 =>
              /\ orders[a].quantity = 0
              /\ \A b \in Books : a \notin Range(Linked(b))
    /\ C6_Scenario

\* the scenario has run to its end
C6_Witness ==
    /\ Quiescent
    /\ History(1, << <<"Buy", 5, 100>>, <<"Buy", 5, 100>>, <<"Sell", 7, 100>> >>)
    /\ Len(trades) = 2

-----------------------------------------------------------------------------
(* C7 *)

\* every call made so far has returned normally
AllReturned ==
    /\ Quiescent
    /\ \A k \in 1 .. Len(calls) : calls[k].outcome = "returned"

\* order o is linked in the list of its side in the book of its instrument
InItsList(o) ==
    LET b == ListIndex(calls[o].ticker_index - 1) IN
    o \in Range(IF orders[o].order_type = "Buy" THEN BuyList(b) ELSE SellList(b))

\* C7: once all the concurrent calls on an instrument have returned, its two
\* lists are sorted, the resting quantity plus the traded quantity (counted
\* for both orders of each trade) equals the submitted quantity, and every
\* order is either still linked with its remaining quantity or has had its
\* missing quantity accounted for by trades.
C7_ConcurrencySafety ==
    AllReturned =>
        /\ \A b \in Books : NonIncreasing(BuyList(b)) /\ NonDecreasing(SellList(b))
        /\ \A i \in ConcTickers :
              RestingQuantity(ListIndex(i - 1)) + 2 * TradedQuantityOf(i)
                  = SubmittedQuantity(i)
        /\ \A o \in 1 .. Len(orders) :
              /\ orders[o].quantity = calls[o].quantity - FilledQuantity(o)
              /\ orders[o].quantity # 0 => InItsList(o)

-----------------------------------------------------------------------------
(* C8 *)

\* the step of a caller that writes the head of a list on behalf of pop_head
PopsHead(t) ==
    /\ pc[t] = "cas_head_assign"
    /\ pc'[t] # "cas_head_assign"
    /\ loc[t].caller # "add_order"

\* the orders a step takes out of the list that caller t is working on
Unlinked(t) ==
    Range(Nodes(orders, SelfHead(t)))
        \ Range(Nodes(orders', order_books'[loc[t].book][loc[t].list]))

C8_State ==
    \A o \in 1 .. Len(orders) :
        /\ orders[o].quantity >= 0
        /\ FilledQuantity(o) <= calls[o].quantity

C8_Step ==
    /\ \A o \in 1 .. Len(orders) : orders'[o].quantity <= orders[o].quantity
    /\ \A t \in Threads :
          PopsHead(t) => \A o \in Unlinked(t) : orders[o].quantity = 0

\* C8: under concurrent callers no order's remaining quantity becomes
\* negative or increases, the trades printed against an order never exceed
\* its submitted quantity, and a pop_head of match_orders never unlinks an
\* order whose remaining quantity is not 0.
C8_ExactlyOnce == []C8_State /\ [][C8_Step]_vars

-----------------------------------------------------------------------------
(* C9 *)

\* the order of call k was never linked into a list and never traded
Untouched(k) ==
    /\ \A b \in Books : k \notin Range(Linked(b))
    /\ \A j \in 1 .. Len(trades) : k \notin {trades[j].buy_order, trades[j].sell_order}

InstrumentValid(call) == call.ticker_index \in 1 .. N

\* C9: a call whose ticker_index is outside 1 .. N ends in an error reported
\* to the caller, its order is never linked into a list nor traded, and it
\* does not advance the order-id counter.
C9_InvalidInstrumentRejected ==
    /\ \A k \in 1 .. Len(calls) :
          ~InstrumentValid(calls[k]) =>
              calls[k].outcome = "IndexError" /\ Untouched(k)
    /\ order_id_counter - InitialCounter
          <= Cardinality({k \in 1 .. Len(calls) : InstrumentValid(calls[k])})

-----------------------------------------------------------------------------
(* C10 *)

ValuesValid(call) == call.quantity > 0 /\ call.price > 0

\* C10: a call with quantity <= 0 or price <= 0 links no order, trades with
\* no order and does not advance the order-id counter, so every order linked
\* in a list has a positive quantity and a positive price.
C10_InvalidValuesRejected ==
    /\ \A k \in 1 .. Len(calls) : ~ValuesValid(calls[k]) => Untouched(k)
    /\ order_id_counter - InitialCounter
          <= Cardinality({k \in 1 .. Len(calls) : ValuesValid(calls[k])})
    /\ \A b \in Books : \A o \in Range(Linked(b)) :
          orders[o].quantity > 0 /\ orders[o].price > 0

-----------------------------------------------------------------------------
(* AtomicCounter.increment, statement by statement, called by several      *)
(* threads as TradingEngine.add_order calls it when it creates an order.   *)

\* the number of increment calls explored
MaxIncrements == 4

\* the positions of a caller that holds self.lock
LockHeld == {"increment_read", "increment_write", "increment_return"}

\* Locked with a lock that never excludes anyone
Locked_Never == FALSE

\* self.lock is held by some caller
Locked == \E t \in Threads : pc[t] \in LockHeld

\* the values returned by the increment calls that have completed
ReturnedValues ==
    {calls[k].result : k \in {j \in 1 .. Len(calls) : calls[j].outcome = "returned"}}

\* a caller calls self.order_id_counter.increment()
increment_call(t) ==
    /\ pc[t] = "idle"
    /\ Len(calls) < MaxIncrements
    /\ calls' = Append(calls, [thread |-> t, before |-> ReturnedValues,
                               outcome |-> "running", result |-> None])
    /\ loc' = [loc EXCEPT ![t] = [call |-> Len(calls) + 1] @@ NoLocals]
    /\ Goto(t, "increment_acquire")
    /\ UNCHANGED <<order_id_counter, orders, order_books, trades>>

\* with self.lock: the caller waits until nobody holds the lock
increment_acquire(t) ==
    /\ pc[t] = "increment_acquire"
    /\ ~Locked
    /\ Goto(t, "increment_read")
    /\ UNCHANGED <<order_id_counter, orders, order_books, trades, calls, loc>>

\* self.value += 1, the read
increment_read(t) ==
    /\ pc[t] = "increment_read"
    /\ loc' = [loc EXCEPT ![t].value = order_id_counter]
    /\ Goto(t, "increment_write")
    /\ UNCHANGED <<order_id_counter, orders, order_books, trades, calls>>

\* self.value += 1, the write
increment_write(t) ==
    /\ pc[t] = "increment_write"
    /\ order_id_counter' = increment(loc[t].value)
    /\ loc' = [loc EXCEPT ![t].value = 0]
    /\ Goto(t, "increment_return")
    /\ UNCHANGED <<orders, order_books, trades, calls>>

\* return self.value, and the lock is released
increment_return(t) ==
    /\ pc[t] = "increment_return"
    /\ calls' = [calls EXCEPT ![loc[t].call].result = order_id_counter,
                              ![loc[t].call].outcome = "returned"]
    /\ loc' = [loc EXCEPT ![t] = NoLocals]
    /\ Goto(t, "idle")
    /\ UNCHANGED <<order_id_counter, orders, order_books, trades>>

NextCounter ==
    \E t \in Threads :
        \/ increment_call(t)
        \/ increment_acquire(t)
        \/ increment_read(t)
        \/ increment_write(t)
        \/ increment_return(t)

SpecCounter == Init /\ [][NextCounter]_vars

-----------------------------------------------------------------------------
(* C11 *)

\* the increment calls that have completed
Completed == {k \in 1 .. Len(calls) : calls[k].outcome = "returned"}

\* C11: the values returned by concurrent increment calls (the order ids that
\* add_order gives its orders) are pairwise distinct, each is greater than
\* every value returned by a call that completed before this call started,
\* and none is skipped: after k calls from the initial value v the returned
\* values are exactly v+1 .. v+k.
C11_SequenceGenerator ==
    /\ \A j \in Completed : \A k \in Completed :
          j # k => calls[j].result # calls[k].result
    /\ \A k \in Completed : \A v \in calls[k].before : calls[k].result > v
    /\ ReturnedValues \subseteq InitialCounter + 1 .. InitialCounter + Len(calls)
    /\ Quiescent =>
          ReturnedValues = InitialCounter + 1 .. InitialCounter + Len(calls)

\* two calls that overlapped (neither had completed when the other started)
\* have both returned, and a third call started after them has returned too
C11_Witness ==
    /\ Quiescent
    /\ \E j \in Completed : \E k \in Completed :
          /\ j # k
          /\ calls[j].thread # calls[k].thread
          /\ calls[j].before = calls[k].before
    /\ \E k \in Completed : Cardinality(calls[k].before) >= 2

-----------------------------------------------------------------------------
(* Several callers at once, scheduled fairly.  The printed lines are output, *)
(* not state of the program: they are not recorded here, so that a state of *)
(* the program that recurs is seen to recur.                                *)

\* the remaining quantities explored: racing callers can drive a quantity
\* away from 0 without end
MaxQuantity == 5

\* some remaining quantity has left the range explored
Beyond == \E o \in 1 .. Len(orders) : orders[o].quantity \notin -MaxQuantity .. MaxQuantity

\* the call of t is followed no further
Abandon(t) ==
    /\ calls' = [calls EXCEPT ![loc[t].order].outcome = "unexplored"]
    /\ pc' = [pc EXCEPT ![t] = "idle"]
    /\ loc' = [loc EXCEPT ![t] = NoLocals]

\* match_orders: ... sell_order.quantity), trade_price and the print, the line
\* printed left unrecorded
match_print_unrecorded(t) ==
    /\ pc[t] = "match_read_sell_quantity"
    /\ IF loc[t].sell_order = None
       THEN Raise(t)
       ELSE IF Beyond
       THEN Abandon(t)
       ELSE LET buy_order == orders[loc[t].buy_order]
                sell_order == orders[loc[t].sell_order]
                traded_quantity ==
                    TradedQuantity([buy_order EXCEPT !.quantity = loc[t].buy_quantity],
                                   sell_order)
            IN  /\ loc' = [loc EXCEPT ![t].traded_quantity = traded_quantity,
                                      ![t].buy_quantity = 0]
                /\ Goto(t, "match_dec_buy_read")
                /\ UNCHANGED calls
    /\ UNCHANGED <<order_id_counter, orders, order_books, trades>>

\* the next statement of caller t
Statement(t) ==
    \/ add_read_head(t)
    \/ cas_head_compare(t)
    \/ cas_head_assign(t)
    \/ walk_test_next(t)
    \/ walk_test_price(t)
    \/ walk_advance(t)
    \/ link_next(t)
    \/ cas_next_compare(t)
    \/ cas_next_assign(t)
    \/ match_test_buy_head(t)
    \/ match_test_sell_head(t)
    \/ match_read_buy_price(t)
    \/ match_read_sell_price(t)
    \/ match_take_buy(t)
    \/ match_take_sell(t)
    \/ match_read_buy_quantity(t)
    \/ match_print_unrecorded(t)
    \/ match_dec_buy_read(t)
    \/ match_dec_buy_write(t)
    \/ match_dec_sell_read(t)
    \/ match_dec_sell_write(t)
    \/ match_check_buy(t)
    \/ match_check_sell(t)
    \/ pop_read_head(t)
    \/ pop_read_next(t)

\* the prices of the fairly scheduled callers: one price, every pair crosses
FairPrices == {100}

\* a caller starts a call, the first SetupCalls calls alone
SubmitFair ==
    /\ Len(calls) < MaxConcCalls
    /\ Len(calls) <= SetupCalls => \A t \in Threads : pc[t] = "idle"
    /\ \E t \in Threads, order_type \in Sides, ticker_index \in ConcTickers,
          quantity \in ConcQuantities, price \in FairPrices :
          add_order_call(t, order_type, ticker_index, quantity, price)

NextFair ==
    \/ SubmitFair
    \/ \E t \in Threads : Statement(t)

\* every caller that has a statement to execute eventually executes it
Fairness == \A t \in Threads : WF_vars(Statement(t))

SpecFair == Init /\ [][NextFair]_vars /\ Fairness

-----------------------------------------------------------------------------
(* C12 *)

\* the number of calls that have ended
Ended == Cardinality({k \in 1 .. Len(calls) : calls[k].outcome # "running"})

C12_EveryCallReturns ==
    \A t \in Threads : (pc[t] # "idle") ~> (pc[t] = "idle")

C12_SomeCallCompletes ==
    \A n \in 0 .. MaxConcCalls : (~Quiescent /\ Ended = n) ~> (Ended > n)

\* C12: under fair scheduling of a finite set of callers making finitely many
\* add_order calls on one book, every call eventually returns, and whenever
\* a call is in progress some call in progress eventually completes.
C12_LockFreeProgress == C12_EveryCallReturns /\ C12_SomeCallCompletes

-----------------------------------------------------------------------------
(* OrderBook.match_orders called on its own, between add_order calls *)

\* match_orders run by a single caller from the loop condition to the exit of
\* the loop: the heap, the book and the lines printed
RECURSIVE match_orders(_, _, _)
match_orders(ords, book, printed) ==
    IF Crosses(ords, book)
    THEN LET m == MatchBody(ords, book)
         IN  match_orders(m.orders, m.book, Append(printed, m.trade @@ [by |-> None]))
    ELSE [orders |-> ords, book |-> book, printed |-> printed]

\* a caller calls order_books[b].match_orders() and the loop runs to its exit
match_orders_call(t, b) ==
    /\ pc[t] = "idle"
    /\ LET m == match_orders(orders, order_books[b], <<>>)
       IN  /\ orders' = m.orders
           /\ order_books' = [order_books EXCEPT ![b] = m.book]
           /\ trades' = trades \o m.printed
    /\ pc' = [pc EXCEPT ![t] = "match_orders_called"]
    /\ loc' = [loc EXCEPT ![t] = [NoLocals EXCEPT !.book = b]]
    /\ UNCHANGED <<order_id_counter, calls>>

\* that call returns
match_orders_called_return(t) ==
    /\ pc[t] = "match_orders_called"
    /\ pc' = [pc EXCEPT ![t] = "idle"]
    /\ loc' = [loc EXCEPT ![t] = NoLocals]
    /\ UNCHANGED <<order_id_counter, orders, order_books, trades, calls>>

\* the books of the instruments a well-behaved caller names
ValidBooks == {ListIndex(i - 1) : i \in ValidTickers}

MatchAgain == \E b \in ValidBooks : match_orders_call(Main, b)

NextDrain ==
    \/ SubmitValid
    \/ match_orders_body(Main)
    \/ match_orders_return(Main)
    \/ MatchAgain
    \/ match_orders_called_return(Main)

SpecDrain == Init /\ [][NextDrain]_vars

-----------------------------------------------------------------------------
(* C13 *)

\* a step that is a call of match_orders made while no add_order is running
DrainStep == pc[Main] = "idle" /\ pc'[Main] = "match_orders_called"

\* C13: a call of match_orders made after add_order calls have returned, with
\* no insert in between, prints no trade and leaves every list and every
\* order (its remaining quantity included) as it was, however often repeated.
C13_IdempotentDrain ==
    [][DrainStep => /\ trades' = trades
                    /\ orders' = orders
                    /\ order_books' = order_books]_vars

\* match_orders has been called again on a book that has traded and still has
\* orders resting on both sides
C13_Witness ==
    /\ pc[Main] = "match_orders_called"
    /\ LET b == loc[Main].book IN
          /\ order_books[b].buy_orders # None
          /\ order_books[b].sell_orders # None
          /\ \E j \in 1 .. Len(trades) :
                ListIndex(calls[trades[j].by].ticker_index - 1) = b

-----------------------------------------------------------------------------
(* C14 *)

\* the lists, as <<book, list name>>, in which order o is linked
ListsOf(ords, books, o) ==
    {x \in Books \X {"buy_orders", "sell_orders"} :
        o \in Range(Nodes(ords, books[x[1]][x[2]]))}

\* the list order o belongs in: the one of its side in the book of its instrument
ItsList(o) ==
    <<ListIndex(calls[o].ticker_index - 1), ListName(calls[o].order_type)>>

C14_State ==
    /\ \A o \in 1 .. Len(orders) :
          /\ ListsOf(orders, order_books, o) \subseteq {ItsList(o)}
          /\ orders[o].price = calls[o].price
          /\ orders[o].order_id = calls[o].order_id
          /\ orders[o].order_id = o
    /\ Quiescent =>
          \A o \in 1 .. Len(orders) :
              ListsOf(orders, order_books, o) # {} => orders[o].quantity > 0

C14_Step ==
    /\ \A o \in 1 .. Len(orders') :
          o > Len(orders) =>
              /\ ListsOf(orders', order_books', o) = {ItsList(o)'}
              /\ orders'[o].quantity = calls'[o].quantity
    /\ \A o \in 1 .. Len(orders) :
          /\ orders'[o].quantity <= orders[o].quantity
          /\ orders'[o].quantity # orders[o].quantity =>
                /\ pc[Main] = "match_orders"
                /\ Len(trades') = Len(trades) + 1
                /\ o \in {trades'[Len(trades')].buy_order, trades'[Len(trades')].sell_order}
          /\ (ListsOf(orders, order_books, o) # {}
                 /\ ListsOf(orders', order_books', o) = {}) =>
                /\ pc[Main] = "match_orders"
                /\ orders'[o].quantity = 0
          /\ orders'[o].price = orders[o].price
          /\ orders'[o].order_id = orders[o].order_id

\* C14: with one add_order at a time and positive quantities, an order is
\* linked into exactly one list when created (the list of its side in the
\* book of its instrument) and is never in another; its remaining quantity
\* only decreases, and only in a step of match_orders that trades it; it is
\* unlinked only by match_orders and only with remaining quantity 0, so every
\* order linked when a call returns has quantity > 0; its price and order_id
\* never change.
C14_Lifecycle == []C14_State /\ [][C14_Step]_vars

\* after a call has returned, one order is still linked with part of its
\* quantity filled and another has been filled completely and unlinked
C14_Witness ==
    /\ Quiescent
    /\ \E o \in 1 .. Len(orders) :
          /\ ListsOf(orders, order_books, o) # {}
          /\ orders[o].quantity < calls[o].quantity
    /\ \E o \in 1 .. Len(orders) :
          /\ ListsOf(orders, order_books, o) = {}
          /\ orders[o].quantity = 0

-----------------------------------------------------------------------------
(* C15 *)

\* the instrument of the call in progress, or of the last call made
CurrentInstrument(history) == history[Len(history)].ticker_index

C15_State ==
    /\ \A b \in Books : \A o \in Range(Linked(b)) : orders[o].ticker = Ticker(b + 1)
    /\ \A j \in 1 .. Len(trades) :
          /\ orders[trades[j].buy_order].ticker = orders[trades[j].sell_order].ticker
          /\ trades[j].ticker = orders[trades[j].buy_order].ticker

C15_Step ==
    Len(calls') > 0 =>
        LET i == CurrentInstrument(calls') IN
        /\ \A b \in Books \ {i - 1} :
              /\ order_books'[b] = order_books[b]
              /\ \A o \in Range(Linked(b)) : orders'[o] = orders[o]
        /\ \A o \in 1 .. Len(orders) :
              orders[o].ticker # Ticker(i) => orders'[o] = orders[o]

\* C15: a step of an add_order call for instrument i in 1 .. N changes only
\* book i - 1: the lists of every other book and the orders in them stay as
\* they were, every order linked in a book carries the instrument of that
\* book, and every trade pairs two orders of one instrument.
C15_BookIndependence == []C15_State /\ [][C15_Step]_vars

\* orders rest in the books of two instruments, one of which has traded
C15_Witness ==
    /\ \A b \in ValidBooks : Linked(b) # <<>>
    /\ \E i \in ValidTickers : \E j \in 1 .. Len(trades) : trades[j].ticker = Ticker(i)

-----------------------------------------------------------------------------
(* C16 *)

\* C16: every add_order call that has returned gave its caller the order id
\* assigned to the order it created, the value it obtained from the counter.
C16_ReturnsOrderId ==
    \A k \in 1 .. Len(calls) :
        calls[k].outcome = "returned" =>
            /\ calls[k].result = calls[k].order_id
            /\ calls[k].result = orders[k].order_id

-----------------------------------------------------------------------------
(* C17 *)

\* a step that is one pass through the body of match_orders' loop
IterationStep == pc[Main] = "match_orders" /\ pc'[Main] = "match_orders"

\* the trades printed by the call that created order k
TradesBy(k) == Cardinality({j \in 1 .. Len(trades) : trades[j].by = k})

\* the orders unlinked by the call that created order k: an order leaves its
\* list in the pass that prints its last trade
UnlinkedBy(k) ==
    {o \in 1 .. Len(orders) :
        /\ ListsOf(orders, order_books, o) = {}
        /\ \E j \in 1 .. Len(trades) :
              trades[j].by = k /\ o \in {trades[j].buy_order, trades[j].sell_order}}

C17_Step ==
    IterationStep =>
        LET b == loc[Main].book
            before == Range(Linked(b))
            after == Range(Nodes(orders', order_books'[b].buy_orders))
                         \cup Range(Nodes(orders', order_books'[b].sell_orders))
            trade == trades'[Len(trades')]
            pair == {trade.buy_order, trade.sell_order}
        IN  /\ Len(trades') = Len(trades) + 1
            /\ before \ after # {}
            /\ before \ after = {o \in pair : orders'[o].quantity = 0}
            /\ after \subseteq before
            /\ orders'[trade.buy_order].quantity > 0 =>
                  order_books'[b].buy_orders = trade.buy_order
            /\ orders'[trade.sell_order].quantity > 0 =>
                  order_books'[b].sell_orders = trade.sell_order

\* the trades of the last call are no more than the orders that were linked in
\* its book when its match_orders started (those still linked and those it
\* has unlinked)
C17_Bound ==
    Len(calls) > 0 /\ calls[Len(calls)].outcome # "IndexError" =>
        LET k == Len(calls)
            b == ItsList(k)[1]
        IN  TradesBy(k) <= Len(Linked(b)) + Cardinality(UnlinkedBy(k))

\* C17: run by a single caller on a book whose resting orders have positive
\* quantities, every pass of match_orders that trades prints one trade and
\* unlinks at least one order, every order it unlinks being completely filled;
\* an order left with quantity > 0 stays the head of its list; so the book
\* shrinks with every pass, the loop ends, and a call prints no more trades
\* than there were orders linked in the book when it started.
C17_MatchingTerminates == [][C17_Step]_vars /\ []C17_Bound

\* one call has printed two trades and left an order partly filled at the head
C17_Witness ==
    /\ Quiescent
    /\ \E k \in 1 .. Len(calls) : TradesBy(k) >= 2
    /\ \E b \in Books :
          /\ order_books[b].sell_orders # None
          /\ orders[order_books[b].sell_orders].quantity
                < calls[order_books[b].sell_orders].quantity

-----------------------------------------------------------------------------
(* OrderList.pop_head called on its own, between add_order calls *)

\* the inputs of the caller that also pops: one instrument
PopTickers == {1}
PopQuantities == {5, 10}

\* a caller calls pop_head() on a list of book b; the call runs to its return
\* and the node returned (current_head, or None) stays in the caller's hands
pop_head_call(t, b, list) ==
    /\ pc[t] = "idle"
    /\ LET popped == pop_head(orders, order_books[b][list])
       IN  /\ order_books' = [order_books EXCEPT ![b][list] = popped.head]
           /\ loc' = [loc EXCEPT ![t] = [NoLocals EXCEPT !.book = b, !.list = list,
                                            !.current_head = popped.result]]
    /\ pc' = [pc EXCEPT ![t] = "pop_head_called"]
    /\ UNCHANGED <<order_id_counter, orders, trades, calls>>

\* the caller lets go of the node
pop_head_called_return(t) ==
    /\ pc[t] = "pop_head_called"
    /\ pc' = [pc EXCEPT ![t] = "idle"]
    /\ loc' = [loc EXCEPT ![t] = NoLocals]
    /\ UNCHANGED <<order_id_counter, orders, order_books, trades, calls>>

PopAgain ==
    \E b \in {ListIndex(i - 1) : i \in PopTickers}, list \in {"buy_orders", "sell_orders"} :
        pop_head_call(Main, b, list)

SubmitPop ==
    /\ Len(calls) < MaxOrders
    /\ \E order_type \in Sides, ticker_index \in PopTickers,
          quantity \in PopQuantities, price \in Prices :
          TradingEngine_add_order(Main, order_type, ticker_index, quantity, price)

NextPop ==
    \/ SubmitPop
    \/ match_orders_body(Main)
    \/ match_orders_return(Main)
    \/ PopAgain
    \/ pop_head_called_return(Main)

SpecPop == Init /\ [][NextPop]_vars

-----------------------------------------------------------------------------
(* C18 *)

\* a step that is a call of pop_head
PopStep == pc[Main] = "idle" /\ pc'[Main] = "pop_head_called"

C18_Step ==
    PopStep =>
        LET b == loc'[Main].book
            list == loc'[Main].list
            result == loc'[Main].current_head
            old == Nodes(orders, order_books[b][list])
            new == Nodes(orders', order_books'[b][list])
        IN  /\ old = <<>> => result = None /\ new = <<>>
            /\ old # <<>> =>
                  /\ result = old[1]
                  /\ order_books'[b][list] = orders[old[1]].next
                  /\ new = Tail(old)
            /\ orders' = orders
            /\ \A x \in Books \X {"buy_orders", "sell_orders"} :
                  x # <<b, list>> => order_books'[x[1]][x[2]] = order_books[x[1]][x[2]]

\* C18: pop_head run by a single caller returns None on an empty list and
\* leaves it empty; on a non-empty list it returns the node that was the head,
\* the head becomes that node's successor and the list is the old list without
\* its first element, every node keeping its quantity; no other list changes.
C18_PopHead == [][C18_Step]_vars

\* pop_head has returned the head of a list of several orders
C18_Witness ==
    /\ pc[Main] = "pop_head_called"
    /\ loc[Main].current_head # None
    /\ SelfHead(Main) # None
    /\ orders[loc[Main].current_head].next = SelfHead(Main)

\* pop_head has returned None on an empty list of a book whose other list is
\* not empty
C18_WitnessEmpty ==
    /\ pc[Main] = "pop_head_called"
    /\ loc[Main].current_head = None
    /\ Linked(loc[Main].book) # <<>>

-----------------------------------------------------------------------------
(* C19 *)

\* C19: after any sequence of add_order calls made one at a time, the price
\* of every trade printed lies between the limits of its two orders:
\* sell price <= trade price <= buy price.
C19_WithinLimits ==
    \A j \in 1 .. Len(trades) :
        /\ orders[trades[j].sell_order].price <= trades[j].price
        /\ trades[j].price <= orders[trades[j].buy_order].price
        /\ orders[trades[j].buy_order].order_type = "Buy"
        /\ orders[trades[j].sell_order].order_type = "Sell"

\* a trade has been printed below the limit of its buyer
C19_Witness ==
    \E j \in 1 .. Len(trades) :
        trades[j].price < orders[trades[j].buy_order].price

-----------------------------------------------------------------------------
(* C20 *)

\* the heads of book b, both present, cross in the heap ords
HeadsCross(ords, books, b) ==
    /\ books[b].buy_orders # None
    /\ books[b].sell_orders # None
    /\ ords[books[b].buy_orders].price >= ords[books[b].sell_orders].price

\* the list of the other side
Opposite(list) == IF list = "buy_orders" THEN "sell_orders" ELSE "buy_orders"

\* an order of this side at this price does not cross the head of the
\* opposite list of book b
NonCrossing(order_type, price, b) ==
    LET head == order_books[b][Opposite(ListName(order_type))] IN
    \/ head = None
    \/ order_type = "Buy" /\ price < orders[head].price
    \/ order_type = "Sell" /\ price > orders[head].price

\* sequence l without the element x
Without(l, x) == LET Other(y) == y # x IN SelectSeq(l, Other)

C20_Step ==
    /\ Len(calls') = Len(calls) + 1 =>
          LET new == Len(calls')
              call == calls'[new]
              b == call.ticker_index - 1
              own == ListName(call.order_type)
              opposite == Opposite(own)
              before == Nodes(orders, order_books[b][own])
              after == Nodes(orders', order_books'[b][own])
          IN  (~HeadsCross(orders, order_books, b)
                  /\ NonCrossing(call.order_type, call.price, b)) =>
                  /\ ~HeadsCross(orders', order_books', b)
                  /\ Len(trades') = Len(trades)
                  /\ Len(after) = Len(before) + 1
                  /\ Without(after, new) = before
                  /\ Nodes(orders', order_books'[b][opposite])
                        = Nodes(orders, order_books[b][opposite])
                  /\ \A o \in 1 .. Len(orders) :
                        orders'[o].quantity = orders[o].quantity
    /\ Len(trades') > Len(trades) =>
          HeadsCross(orders, order_books, loc[Main].book)

\* C20: when the book is at its matching fixpoint and the new order does not
\* cross the head of the opposite list, add_order links exactly one new node
\* into the list of the order's side, the nodes already linked keeping their
\* relative order and their quantities, leaves the opposite list unchanged and
\* leaves the heads not crossing; a trade is printed only when the heads
\* cross, so the call prints none.
C20_NonCrossingAdd == [][C20_Step]_vars

\* a call has returned without a trade after linking its order behind the
\* head of its list, in a book whose opposite list is not empty
C20_Witness ==
    /\ Quiescent
    /\ Len(calls) > 0
    /\ LET k == Len(calls)
           x == ItsList(k)
           l == Nodes(orders, order_books[x[1]][x[2]])
       IN  /\ TradesBy(k) = 0
           /\ Len(l) >= 2
           /\ l[2] = k
           /\ order_books[x[1]][Opposite(x[2])] # None

=============================================================================
